---- MODULE Spec2Model ----
(***************************************************************************)
(* The avatar-controller web component (basic and responsive variants):    *)
(* scene set-up, model loading, animation playback, render loop, teardown  *)
(* and the responsive resize computation.                                  *)
(***************************************************************************)
EXTENDS Integers, Sequences, FiniteSets, TLC

VARIABLES
  variant,          \* "basic" (avatar-controller.ts) or "responsive" (part_000)
  rootType,         \* Object3D.type of a glTF root as produced by the loader in use
  phase,            \* "created" | "mounted" | "disconnected"
  modelUrl,         \* property modelUrl
  isLoading,        \* _isLoading
  modelLoaded,      \* _modelLoaded
  currentAnimation, \* _currentAnimation (Null when null)
  scene,            \* _scene / _camera / _renderer are set (all three set together)
  sceneModels,      \* children of _scene that are glTF roots: set of [id, type]
  model,            \* _model (NoModel when null)
  mixer,            \* _mixer: id of the mixer, 0 when null
  animations,       \* _animations: clip name -> [mixer, st]
  animationNames,   \* _animationNames
  controls,         \* _controls is set
  timerPending,     \* the 100 ms setTimeout of _initScene has not fired yet
  hdr,              \* "none" | "pending" | "settled": the HDR load of _initScene
  rafPending,       \* number of requestAnimationFrame callbacks of _animate scheduled
  inflight,         \* loads awaiting loader.loadAsync: set of [id, url]
  loadsStarted,     \* number of _loadModel calls that passed the _scene guard
  listeners,        \* mixer id -> sequence of names: "finished" listeners of play
  plays,            \* number of listeners registered so far
  width, height,    \* canvas dimensions (rationals <<num, den>>)
  winW, winH,       \* window.innerWidth, window.innerHeight
  rendererSize,     \* last renderer.setSize(width, height)
  cameraAspect,     \* camera.aspect as the pair <<width, height>> it was computed from
  emitted,          \* events dispatched by the last step, in order
  lastOp            \* the last step, when it was a play(name) call or the completion
                    \* of a clip: [op, arg]; Other for every other step

vars == <<variant, rootType, phase, modelUrl, isLoading, modelLoaded,
          currentAnimation, scene, sceneModels, model, mixer, animations,
          animationNames, controls, timerPending, hdr, rafPending, inflight,
          loadsStarted, listeners, plays, width, height, winW, winH,
          rendererSize, cameraAspect, emitted, lastOp>>

---------------------------------------------------------------------------
\* Bounds of the model.
MaxLoads == 2
MaxPlays == 2

\* Program constants.
MobileMaxWidth == 767
DefaultSize == 600
BasicSize == 400
FitSize == 2

Null == "<null>"

---------------------------------------------------------------------------
\* Exact rationals <<numerator, denominator>>, denominator > 0.
R(n) == <<n, 1>>
RMul(a, b) == <<a[1] * b[1], a[2] * b[2]>>
RSub(a, b) == <<a[1] * b[2] - b[1] * a[2], a[2] * b[2]>>
RAdd(a, b) == <<a[1] * b[2] + b[1] * a[2], a[2] * b[2]>>
RDiv(a, b) == <<a[1] * b[2], a[2] * b[1]>>
REq(a, b) == a[1] * b[2] = b[1] * a[2]
RGt(a, b) == a[1] * b[2] > b[1] * a[2]
RMax(a, b) == IF RGt(b, a) THEN b ELSE a
RMin(a, b) == IF RGt(a, b) THEN b ELSE a

Axes == 1..3

---------------------------------------------------------------------------
\* The assets the environment serves: clip names in declared order, and the
\* local bounding box of the root (min and max corner).
Urls == {"a.glb", "b.glb"}
Names == {"walk", "run"}

Clips(url) == IF url = "a.glb" THEN <<"walk", "run">> ELSE <<>>

BoxMin(url) == IF url = "a.glb" THEN <<-1, 0, -1>> ELSE <<2, 1, 0>>

BoxMax(url) == IF url = "a.glb" THEN <<3, 2, 0>> ELSE <<3, 6, 2>>

Range(s) == {s[i] : i \in 1..Len(s)}

---------------------------------------------------------------------------
\* _loadModel, "Centrer et ajuster la taille du modele": the bounding box of
\* the freshly decoded root (scale 1, position 0), its centre and size, the
\* uniform scale 2 / maxDim and the recentring translation.
Box3Size(url) == [i \in Axes |-> R(BoxMax(url)[i] - BoxMin(url)[i])]

Box3Center(url) == [i \in Axes |-> <<BoxMin(url)[i] + BoxMax(url)[i], 2>>]

MaxDim(size) == RMax(size[1], RMax(size[2], size[3]))

FitScale(url) == RDiv(R(FitSize), MaxDim(Box3Size(url)))

\* A variant of FitPosition that forgets to scale the centre.
FitPositionUnscaled(url) ==
  [i \in Axes |-> RSub(R(0), Box3Center(url)[i])]

FitPosition(url) ==
  [i \in Axes |-> RSub(R(0), RMul(Box3Center(url)[i], FitScale(url)))]

Fitted(id, url) ==
  [id |-> id, asset |-> url,
   scale |-> [i \in Axes |-> RMul(R(1), FitScale(url))],
   position |-> FitPosition(url)]

NoModel ==
  [id |-> 0, asset |-> "",
   scale |-> [i \in Axes |-> R(1)], position |-> [i \in Axes |-> R(0)]]

\* World-space bounding box of a model under its current scale and position.
WorldMin(m) ==
  [i \in Axes |-> RAdd(m.position[i], RMul(m.scale[i], R(BoxMin(m.asset)[i])))]

WorldMax(m) ==
  [i \in Axes |-> RAdd(m.position[i], RMul(m.scale[i], R(BoxMax(m.asset)[i])))]

---------------------------------------------------------------------------
\* A variant of ResizeDims that clamps the height and leaves the width.
ResizeDimsHeightOnly(w, h) ==
  IF w <= MobileMaxWidth
    THEN IF RGt(R(w), RMul(R(h), <<8, 10>>))
           THEN <<R(w), RMul(R(h), <<8, 10>>)>>
           ELSE <<R(w), R(w)>>
    ELSE <<R(DefaultSize), R(DefaultSize)>>

\* _handleResize: the canvas dimensions for a window of w x h pixels.
ResizeDims(w, h) ==
  IF w <= MobileMaxWidth
    THEN IF RGt(R(w), RMul(R(h), <<8, 10>>))
           THEN <<RMul(R(h), <<8, 10>>), RMul(R(h), <<8, 10>>)>>
           ELSE <<R(w), R(w)>>
    ELSE <<R(DefaultSize), R(DefaultSize)>>

---------------------------------------------------------------------------
\* _cleanup: scene children of type "Scene" are removed.
CleanupChildren(children) == {o \in children : o.type # "Scene"}

\* _playAnimation: the early return.
PlayIgnored(name) ==
  name \notin DOMAIN animations \/ currentAnimation = name

\* _playAnimation: fadeOut on every other action, then fadeIn / crossFadeFrom
\* and play on the requested one.
PlayedActions(name) ==
  [n \in DOMAIN animations |->
     IF n = name
       THEN [mixer |-> animations[n].mixer, st |-> "playing"]
       ELSE IF animations[n].st = "playing"
              THEN [mixer |-> animations[n].mixer, st |-> "fading"]
              ELSE animations[n]]

\* The listeners play registers on action.getMixer().
AddListener(ls, m, name) == [ls EXCEPT ![m] = Append(@, name)]

\* What the "finished" listeners of a mixer dispatch, in registration order.
EndEvents(ls) ==
  [i \in 1..Len(ls) |-> [type |-> "animation-end", animation |-> ls[i]]]

Op(op, arg) == [op |-> op, arg |-> arg]

Other == Op("other", "")

---------------------------------------------------------------------------
WinWidths == {320, 767, 768}
WinHeights == {300, 900}

Init ==
  /\ variant \in {"basic", "responsive"}
  /\ rootType \in {"Group", "Scene"}
  /\ phase = "created"
  /\ modelUrl = ""
  /\ isLoading = FALSE
  /\ modelLoaded = FALSE
  /\ currentAnimation = Null
  /\ scene = FALSE
  /\ sceneModels = {}
  /\ model = NoModel
  /\ mixer = 0
  /\ animations = <<>>
  /\ animationNames = <<>>
  /\ controls = FALSE
  /\ timerPending = FALSE
  /\ hdr = "none"
  /\ rafPending = 0
  /\ inflight = {}
  /\ loadsStarted = 0
  /\ listeners = [m \in 1..MaxLoads |-> <<>>]
  /\ plays = 0
  /\ width = IF variant = "basic" THEN R(BasicSize) ELSE R(DefaultSize)
  /\ height = IF variant = "basic" THEN R(BasicSize) ELSE R(DefaultSize)
  /\ winW \in IF variant = "basic" THEN {768} ELSE WinWidths
  /\ winH \in IF variant = "basic" THEN {900} ELSE WinHeights
  /\ rendererSize = <<R(0), R(0)>>
  /\ cameraAspect = <<R(0), R(0)>>
  /\ emitted = <<>>
  /\ lastOp = Other

loadVars == <<isLoading, modelLoaded, sceneModels, controls, model, mixer,
              animations, inflight, loadsStarted>>

\* _cleanup.
Cleanup(sceneNow) ==
  /\ sceneModels' = IF sceneNow THEN CleanupChildren(sceneModels) ELSE sceneModels
  /\ controls' = FALSE
  /\ model' = NoModel
  /\ mixer' = 0
  /\ animations' = <<>>

\* _loadModel up to its await: the guard, the flags, _cleanup and the fetch of
\* this.modelUrl.
LoadModel(url, sceneNow) ==
  IF ~sceneNow
    THEN UNCHANGED loadVars
    ELSE /\ isLoading' = TRUE
         /\ modelLoaded' = FALSE
         /\ Cleanup(sceneNow)
         /\ loadsStarted' = loadsStarted + 1
         /\ inflight' = inflight \cup {[id |-> loadsStarted + 1, url |-> url]}

\* updated(changedProperties) followed by the microtask it queues.
WouldLoad(changed, url) == changed /\ url # "" /\ ~modelLoaded

Updated(changed, url, sceneNow) ==
  /\ WouldLoad(changed, url) => loadsStarted < MaxLoads
  /\ IF WouldLoad(changed, url)
       THEN LoadModel(url, sceneNow)
       ELSE UNCHANGED loadVars

\* The modelUrl attribute is set to another value.
SetModelUrl(u) ==
  /\ phase \in {"created", "mounted"}
  /\ u # modelUrl
  /\ modelUrl' = u
  /\ IF phase = "created" THEN UNCHANGED loadVars ELSE Updated(TRUE, u, scene)
  /\ emitted' = <<>>
  /\ lastOp' = Other
  /\ UNCHANGED <<variant, rootType, phase, currentAnimation, scene,
                 animationNames, timerPending, hdr, rafPending, listeners,
                 plays, width, height, winW, winH, rendererSize, cameraAspect>>

\* First render: firstUpdated (_initScene up to its await, and _handleResize
\* in the responsive variant), then updated.
Mount ==
  /\ phase = "created"
  /\ phase' = "mounted"
  /\ scene' = TRUE
  /\ timerPending' = TRUE
  /\ hdr' = "pending"
  /\ width' = IF variant = "responsive" THEN ResizeDims(winW, winH)[1] ELSE width
  /\ height' = IF variant = "responsive" THEN ResizeDims(winW, winH)[2] ELSE height
  /\ rendererSize' = <<width', height'>>
  /\ cameraAspect' = <<width', height'>>
  /\ Updated(TRUE, modelUrl, TRUE)
  /\ emitted' = <<>>
  /\ lastOp' = Other
  /\ UNCHANGED <<variant, rootType, modelUrl, currentAnimation, animationNames,
                 rafPending, listeners, plays, winW, winH>>

\* window "resize" (responsive variant): _handleResize. The listener stays
\* registered after disconnectedCallback, which removes a fresh bound copy.
Resize(w, h) ==
  /\ variant = "responsive"
  /\ phase # "created"
  /\ <<w, h>> # <<winW, winH>>
  /\ winW' = w
  /\ winH' = h
  /\ width' = ResizeDims(w, h)[1]
  /\ height' = ResizeDims(w, h)[2]
  /\ IF scene
       THEN /\ rendererSize' = <<width', height'>>
            /\ cameraAspect' = <<width', height'>>
       ELSE UNCHANGED <<rendererSize, cameraAspect>>
  /\ emitted' = <<>>
  /\ lastOp' = Other
  /\ UNCHANGED <<variant, rootType, phase, modelUrl, currentAnimation, scene,
                 animationNames, timerPending, hdr, rafPending, listeners,
                 plays>>
  /\ UNCHANGED loadVars

\* The 100 ms timer of _initScene: _setupOrbitControls.
TimerFire ==
  /\ timerPending
  /\ timerPending' = FALSE
  /\ controls' = IF scene THEN TRUE ELSE controls
  /\ emitted' = <<>>
  /\ lastOp' = Other
  /\ UNCHANGED <<variant, rootType, phase, modelUrl, isLoading, modelLoaded,
                 currentAnimation, scene, sceneModels, model, mixer,
                 animations, animationNames, hdr, rafPending, inflight,
                 loadsStarted, listeners, plays, width, height, winW, winH,
                 rendererSize, cameraAspect>>

\* disconnectedCallback: _cleanup.
Disconnect ==
  /\ phase = "mounted"
  /\ phase' = "disconnected"
  /\ Cleanup(scene)
  /\ emitted' = <<>>
  /\ lastOp' = Other
  /\ UNCHANGED <<variant, rootType, modelUrl, isLoading, modelLoaded,
                 currentAnimation, scene, animationNames, timerPending, hdr,
                 rafPending, inflight, loadsStarted, listeners, plays, width,
                 height, winW, winH, rendererSize, cameraAspect>>

\* loader.loadAsync resolves: the rest of the try block of _loadModel and its
\* finally.
LoadResolve(l) ==
  /\ l \in inflight
  /\ inflight' = inflight \ {l}
  /\ model' = Fitted(l.id, l.url)
  /\ sceneModels' = sceneModels \cup {[id |-> l.id, type |-> rootType]}
  /\ animationNames' = Clips(l.url)
  /\ mixer' = IF Len(Clips(l.url)) > 0 THEN l.id ELSE mixer
  /\ animations' =
       [n \in DOMAIN animations \cup Range(Clips(l.url)) |->
          IF n \in Range(Clips(l.url))
            THEN [mixer |-> l.id, st |-> "stopped"]
            ELSE animations[n]]
  /\ modelLoaded' = TRUE
  /\ isLoading' = FALSE
  /\ emitted' = <<>>
  /\ lastOp' = Other
  /\ UNCHANGED <<variant, rootType, phase, modelUrl, currentAnimation, scene,
                 controls, timerPending, hdr, rafPending, loadsStarted,
                 listeners, plays, width, height, winW, winH, rendererSize,
                 cameraAspect>>

\* loader.loadAsync rejects: the catch and the finally of _loadModel.
LoadReject(l) ==
  /\ l \in inflight
  /\ inflight' = inflight \ {l}
  /\ isLoading' = FALSE
  /\ emitted' = <<>>
  /\ lastOp' = Other
  /\ UNCHANGED <<variant, rootType, phase, modelUrl, modelLoaded,
                 currentAnimation, scene, sceneModels, model, mixer,
                 animations, animationNames, controls, timerPending, hdr,
                 rafPending, loadsStarted, listeners, plays, width, height,
                 winW, winH, rendererSize, cameraAspect>>

\* _playAnimation(name).
Play(name) ==
  /\ phase # "created"
  /\ IF PlayIgnored(name)
       THEN /\ emitted' = <<>>
            /\ UNCHANGED <<currentAnimation, animations, listeners, plays>>
       ELSE /\ plays < MaxPlays
            /\ animations' = PlayedActions(name)
            /\ currentAnimation' = name
            /\ emitted' = <<[type |-> "animation-start", animation |-> name]>>
            /\ listeners' = AddListener(listeners, animations[name].mixer, name)
            /\ plays' = plays + 1
  /\ lastOp' = Op("play", name)
  /\ UNCHANGED <<variant, rootType, phase, modelUrl, isLoading, modelLoaded,
                 scene, sceneModels, model, mixer, animationNames, controls,
                 timerPending, hdr, rafPending, inflight, loadsStarted, width,
                 height, winW, winH, rendererSize, cameraAspect>>

\* The actions this._mixer.update(delta) advances.
Running == {n \in DOMAIN animations :
              animations[n].mixer = mixer /\ animations[n].st # "stopped"}

\* The body of _animate after its guard and its requestAnimationFrame:
\* mixer.update(delta) lets nothing end, a fade-out end, or a running clip
\* complete, which dispatches "finished" to every listener of the mixer.
MixerUpdate ==
  \/ /\ UNCHANGED <<currentAnimation, animations>>
     /\ emitted' = <<>>
     /\ lastOp' = Other
  \/ \E n \in Running :
       /\ animations[n].st = "fading"
       /\ animations' = [animations EXCEPT ![n].st = "stopped"]
       /\ UNCHANGED currentAnimation
       /\ emitted' = <<>>
       /\ lastOp' = Other
  \/ \E n \in Running :
       /\ animations' = [animations EXCEPT ![n].st = "stopped"]
       /\ currentAnimation' =
            IF Len(listeners[mixer]) > 0 THEN Null ELSE currentAnimation
       /\ emitted' = EndEvents(listeners[mixer])
       /\ lastOp' = Op("finished", n)

\* A scheduled requestAnimationFrame callback runs _animate.
Tick ==
  /\ rafPending > 0
  /\ rafPending' = IF scene THEN rafPending ELSE rafPending - 1
  /\ IF scene
       THEN MixerUpdate
       ELSE /\ UNCHANGED <<currentAnimation, animations>>
            /\ emitted' = <<>>
            /\ lastOp' = Other
  /\ UNCHANGED <<variant, rootType, phase, modelUrl, isLoading, modelLoaded,
                 scene, sceneModels, model, mixer, animationNames, controls,
                 timerPending, hdr, inflight, loadsStarted, listeners, plays,
                 width, height, winW, winH, rendererSize, cameraAspect>>

\* hdrLoader.loadAsync settles (environment map, or the gray background of
\* the catch): the rest of _initScene, whose last statement is the first call
\* of _animate.
HdrSettle ==
  /\ hdr = "pending"
  /\ hdr' = "settled"
  /\ rafPending' = IF scene THEN rafPending + 1 ELSE rafPending
  /\ IF scene
       THEN MixerUpdate
       ELSE /\ UNCHANGED <<currentAnimation, animations>>
            /\ emitted' = <<>>
            /\ lastOp' = Other
  /\ UNCHANGED <<variant, rootType, phase, modelUrl, isLoading, modelLoaded,
                 scene, sceneModels, model, mixer, animationNames, controls,
                 timerPending, inflight, loadsStarted, listeners, plays,
                 width, height, winW, winH, rendererSize, cameraAspect>>

Next ==
  \/ \E u \in Urls \cup {""} : SetModelUrl(u)
  \/ Mount
  \/ \E w \in WinWidths, h \in WinHeights : Resize(w, h)
  \/ TimerFire
  \/ Disconnect
  \/ \E l \in inflight : LoadResolve(l)
  \/ \E l \in inflight : LoadReject(l)
  \/ \E n \in Names : Play(n)
  \/ Tick
  \/ HdrSettle

Spec == Init /\ [][Next]_vars

---------------------------------------------------------------------------
\* Vocabulary of the properties.

\* The names that are animations of the currently loaded model (_model).
ModelClipNames == Range(Clips(model.asset))

\* How many "finished" listeners the current mixer holds for name n: the
\* number of effective play(n) calls since the load that created the mixer.
PlayedCount(n) ==
  IF mixer = 0 THEN 0
  ELSE Cardinality({i \in 1..Len(listeners[mixer]) : listeners[mixer][i] = n})

\* How many "animation-end" events for n the last step dispatched.
EndCount(n) ==
  Cardinality({i \in 1..Len(emitted) :
                 emitted[i] = [type |-> "animation-end", animation |-> n]})

\* C1: for every name N played exactly once since the last load, the
\* completion of N's own clip dispatches exactly one "animation-end" for N,
\* and the completion of any other clip dispatches none for N (after
\* play("walk"), play("run"), the completion of "run" gives no
\* "animation-end" for "walk").
C1_EndOnlyForOwnClip ==
  lastOp.op = "finished" =>
    \A n \in Names :
      PlayedCount(n) = 1 =>
        EndCount(n) = IF n = lastOp.arg THEN 1 ELSE 0

\* C2: the playback state changes only by play(name) leading to
\* Playing(name) and by the completion of the current animation leading to
\* Idle; the completion of an animation that is not current leaves the
\* current marker alone and dispatches no "animation-end".
C2_PlaybackTransitions ==
  [][ /\ currentAnimation' # currentAnimation =>
           \/ lastOp' = Op("play", currentAnimation')
           \/ /\ currentAnimation' = Null
              /\ lastOp' = Op("finished", currentAnimation)
      /\ (lastOp'.op = "finished" /\ lastOp'.arg # currentAnimation) =>
           /\ currentAnimation' = currentAnimation
           /\ emitted' = <<>> ]_vars

\* C3: play(name) changes nothing and dispatches nothing when name is the
\* current animation or is not an animation of the currently loaded model.
C3_PlayNoOp ==
  [][ (/\ lastOp'.op = "play"
       /\ \/ lastOp'.arg = currentAnimation
          \/ lastOp'.arg \notin ModelClipNames) =>
        /\ emitted' = <<>>
        /\ UNCHANGED <<currentAnimation, animations, listeners, mixer, model,
                       sceneModels, animationNames, isLoading, modelLoaded>>
    ]_vars

\* C4: in a mounted component, every change of modelUrl to a non-empty
\* value starts a load of that URL.
C4_UrlChangeStartsLoad ==
  [][ (phase = "mounted" /\ modelUrl' # modelUrl /\ modelUrl' # "") =>
        \E l \in inflight' \ inflight : l.url = modelUrl' ]_vars

\* C5: while at least one load is in flight, the loading flag is set.
C5_LoadingWhileInFlight == inflight # {} => isLoading

\* A step in which a load in flight ended by rejection: it leaves inflight
\* and _model keeps its value (a resolution always installs a new root).
LoadFailedStep ==
  \E l \in inflight : inflight' = inflight \ {l} /\ model' = model

\* C6: a load that fails clears the loading flag and leaves the component
\* without a model: none in the scene, no mixer, no registered action, the
\* model-loaded flag false.
C6_FailedLoadLeavesNoModel ==
  [][ LoadFailedStep =>
        /\ isLoading' = FALSE
        /\ model' = NoModel
        /\ sceneModels' = {}
        /\ mixer' = 0
        /\ animations' = <<>>
        /\ modelLoaded' = FALSE ]_vars

\* C7: a tick schedules exactly one next tick while the component is
\* mounted, and after unmount no tick is scheduled any more.
C7_LoopStopsOnUnmount ==
  /\ rafPending <= 1
  /\ phase = "disconnected" => rafPending = 0

\* C8: whenever no load is in flight, the button names are, in declared
\* order, exactly the names with a registered action of the loaded model.
C8_ButtonsMatchRegistry ==
  inflight = {} =>
    /\ animationNames = Clips(model.asset)
    /\ Range(animationNames) = DOMAIN animations

\* C9: in the responsive variant, once mounted, a window narrower than the
\* mobile breakpoint gives width = height = min(w, 80% of h), any other
\* window gives width = height = 600, and the renderer size and the camera
\* aspect are those of the resulting width and height.
C9_ResponsiveDims ==
  (variant = "responsive" /\ phase # "created") =>
    /\ IF winW < MobileMaxWidth + 1
         THEN REq(width, RMin(R(winW), RMul(<<8, 10>>, R(winH))))
         ELSE REq(width, R(DefaultSize))
    /\ REq(height, width)
    /\ rendererSize = <<width, height>>
    /\ cameraAspect = <<width, height>>

\* The clamped case: a 320 x 300 window gives a 240 x 240 canvas.
C9_Witness ==
  /\ variant = "responsive"
  /\ phase = "mounted"
  /\ winW = 320 /\ winH = 300
  /\ REq(width, R(240)) /\ REq(height, R(240))
  /\ rendererSize = <<width, height>>

\* The largest extent of an asset's bounding box.
MaxExtent(url) ==
  CHOOSE e \in {BoxMax(url)[i] - BoxMin(url)[i] : i \in Axes} :
    \A i \in Axes : BoxMax(url)[i] - BoxMin(url)[i] <= e

\* C10: a loaded model carries the uniform scale 2 / (largest extent); its
\* scaled bounding box has largest dimension 2 and is centred at the origin.
C10_FitToView ==
  model.id # 0 =>
    LET dims == [i \in Axes |-> RSub(WorldMax(model)[i], WorldMin(model)[i])]
    IN /\ \A i \in Axes : REq(model.scale[i], <<2, MaxExtent(model.asset)>>)
       /\ \E i \in Axes : REq(dims[i], R(2))
       /\ \A i \in Axes : ~RGt(dims[i], R(2))
       /\ \A i \in Axes :
            REq(RAdd(WorldMin(model)[i], WorldMax(model)[i]), R(0))

\* The model of extent 4 is loaded with scale factor 1/2.
C10_Witness ==
  /\ modelLoaded
  /\ model.asset = "a.glb"
  /\ MaxExtent(model.asset) = 4
  /\ REq(model.scale[1], <<1, 2>>)

\* C11: after any sequence of loads the scene contains at most one loaded
\* model, and the action registry and the mixer hold only the actions of
\* that model (_model).
C11_OneModelOneRegistry ==
  /\ Cardinality(sceneModels) <= 1
  /\ \A n \in DOMAIN animations : animations[n].mixer = model.id
  /\ mixer \in {0, model.id}

\* C12: after unmount the component stays torn down: no model in the scene,
\* no _model, no mixer, no registered action and no view controls, whatever
\* completes or fires afterwards.
C12_StaysTornDown ==
  phase = "disconnected" =>
    /\ sceneModels = {}
    /\ model = NoModel
    /\ mixer = 0
    /\ animations = <<>>
    /\ ~controls

\* C13: once attached, the view controls stay attached while the component
\* is mounted (no load start or completion removes them), so a mounted
\* component whose timer has fired and whose model is loaded has controls.
C13_ControlsStayAttached ==
  [][ /\ (controls /\ phase' = "mounted") => controls'
      /\ (phase' = "mounted" /\ modelLoaded' /\ ~timerPending') => controls'
    ]_vars

====
